---- MODULE Spec2Model ----
(***************************************************************************)
(* Model of platform/api/src/api/v1/gql/mutations/user.rs: the GraphQL     *)
(* mutations of a user's own profile (email, display name, display color,  *)
(* password, follow).  Every request is one task; its steps are the await  *)
(* points of its handler.  The storage (users, user_sessions,              *)
(* channel_user) and the message stream are shared by all requests.        *)
(***************************************************************************)
EXTENDS Integers, Sequences, FiniteSets, TLC

(* ------------------------------ bounds -------------------------------- *)

\* Number of requests in flight at the same time.
NumReq == 2
\* Number of changes other services make to the users table (rename, delete).
MaxEnv == 2

Reqs == 1..NumReq

(* ------------------------------ inputs -------------------------------- *)

Users == {1, 2}
None == [none |-> TRUE]

\* Names are sequences of characters, so that lowercasing is computed.
UsernameArgs == {<<"A", "b">>, <<"b">>}
NameArgs == {<<"A", "B">>, <<"b">>}
CurrentPasswords == {"p0", "p1"}
NewPasswords == {"p1", "p2"}
Channels == Users
Colors == {0, 1}
Emails == {"e0", "e1"}

\* user_sessions as other services left it: two sessions of user 1, one of user 2.
InitSessions ==
    {[id |-> 1, user_id |-> 1], [id |-> 2, user_id |-> 1], [id |-> 3, user_id |-> 2]}
\* What a request presents: the id of a session, or nothing.
Tokens == {s.id : s \in InitSessions} \cup {0}

VARIABLES
    users,          \* table users: id -> row, or None once the row is gone
    sessions,       \* table user_sessions: set of rows [id, user_id]
    channel_user,   \* table channel_user: set of rows [user_id, channel_id, following]
    nats,           \* every publish call in order: [req, subject, payload, ok]
    pc,             \* per request: the await point it is at
    args,           \* per request: operation, token and arguments
    auth,           \* per request: the resolved session (auth.session), or None
    user,           \* per request: the local `user` (loaded or returned row)
    tx,             \* per request: the open transaction's uncommitted writes
    result,         \* per request: what the handler returned
    at,             \* per request: the await point it returned from
    concurrent,     \* the pairs of display-name requests that waited for their
                    \* update, after their load, at the same time
    env             \* number of changes made by other services so far

vars ==
    <<users, sessions, channel_user, nats, pc, args, auth, user, tx, result, at,
      concurrent, env>>

(* ------------------------- pure functions ----------------------------- *)

\* char::to_lowercase on the alphabet of the model.
LowerChar(c) ==
    CASE c = "A" -> "a"
      [] c = "B" -> "b"
      [] OTHER -> c

\* str::to_lowercase: character by character.
to_lowercase(s) == [i \in 1..Len(s) |-> LowerChar(s[i])]

\* database::User::hash_password: a digest that is not the password itself.
hash_password(p) == <<"hash", p>>

\* database::User::verify_password: the digest of the candidate is the stored one.
verify_password(u, p) == u.password_hash = hash_password(p)

\* format!("{kind}.{id}.{event}"): the subject of a message.
Subject(kind, id, event) == <<kind, id, event>>

\* request_context.auth(): the session the token names, when it is stored.
Auth(token) ==
    IF \E s \in sessions : s.id = token
    THEN CHOOSE s \in sessions : s.id = token
    ELSE None

\* user_by_id_loader.load(id): the stored row, or None.
Load(id) == users[id]

(* ------------------------------ results ------------------------------- *)

Pending == [kind |-> "Pending", fields |-> <<>>]
Ok(v) == [kind |-> "Ok", fields |-> <<>>, value |-> v]
NotLoggedIn == [kind |-> "NotLoggedIn", fields |-> <<>>]
NotFound == [kind |-> "NotFound", fields |-> <<"user">>]
InvalidInput(f) == [kind |-> "InvalidInput", fields |-> <<f>>]
\* sqlx::Error::RowNotFound, what fetch_one returns when no row matches.
RowNotFound == [kind |-> "RowNotFound", fields |-> <<>>]
\* Any other sqlx::Error (connection, constraint), and a failed loader batch.
DbError == [kind |-> "DbError", fields |-> <<>>]
PublishError == [kind |-> "PublishError", fields |-> <<>>]

NoTx == [open |-> FALSE, hash |-> None, deleted |-> {}]

(* ------------------------------ state --------------------------------- *)

InitUser(u) ==
    [id |-> u,
     username |-> IF u = 1 THEN <<"A", "b">> ELSE <<"C">>,
     display_name |-> IF u = 1 THEN <<"A", "b">> ELSE <<"C">>,
     email |-> IF u = 1 THEN "e0" ELSE "e2",
     email_verified |-> TRUE,
     display_color |-> 0,
     password_hash |-> hash_password("p0")]

Init ==
    /\ users = [u \in Users |-> InitUser(u)]
    /\ sessions = InitSessions
    /\ channel_user = {}
    /\ nats = <<>>
    /\ pc = [r \in Reqs |-> "idle"]
    /\ args = [r \in Reqs |-> None]
    /\ auth = [r \in Reqs |-> None]
    /\ user = [r \in Reqs |-> None]
    /\ tx = [r \in Reqs |-> NoTx]
    /\ result = [r \in Reqs |-> Pending]
    /\ at = [r \in Reqs |-> "idle"]
    /\ concurrent = {}
    /\ env = 0

\* A row of users is write-locked by the transaction that has updated it and
\* has not yet committed or rolled back.
Locked(u) == \E r \in Reqs : tx[r].open /\ tx[r].hash # None /\ auth[r].user_id = u

\* The handler returns: an open transaction is dropped, which rolls it back.
Return(r, res) ==
    /\ pc' = [pc EXCEPT ![r] = IF res.kind = "Ok" THEN "done" ELSE "failed"]
    /\ result' = [result EXCEPT ![r] = res]
    /\ at' = [at EXCEPT ![r] = pc[r]]
    /\ tx' = [tx EXCEPT ![r] = NoTx]

\* The handler goes on to its next await point.
Goto(r, label) ==
    /\ pc' = [pc EXCEPT ![r] = label]
    /\ UNCHANGED <<result, at>>

\* Faulty variant: a request without a session is told that the user is missing.
Authenticate_wrong_error(r, a, next) ==
    /\ pc[r] = "idle"
    /\ args' = [args EXCEPT ![r] = a]
    /\ IF Auth(a.token) = None
       THEN /\ Return(r, NotFound)
            /\ UNCHANGED auth
       ELSE /\ auth' = [auth EXCEPT ![r] = Auth(a.token)]
            /\ Goto(r, next)
            /\ UNCHANGED tx
    /\ UNCHANGED <<users, sessions, channel_user, nats, user, env>>

\* let auth = request_context.auth().await?.ok_or(NotLoggedIn)?
\* A request arrives with a token and its arguments; without a stored session it
\* fails, otherwise it goes on at `next`.
Authenticate(r, a, next) ==
    /\ pc[r] = "idle"
    /\ args' = [args EXCEPT ![r] = a]
    /\ IF Auth(a.token) = None
       THEN /\ Return(r, NotLoggedIn)
            /\ UNCHANGED auth
       ELSE /\ auth' = [auth EXCEPT ![r] = Auth(a.token)]
            /\ Goto(r, next)
            /\ UNCHANGED tx
    /\ UNCHANGED <<users, sessions, channel_user, nats, user, env>>

\* nats.publish(subject, payload).await: the call is made; it succeeds or fails.
Publish(r, subject, payload, ok) ==
    nats' = Append(nats, [req |-> r, subject |-> subject, payload |-> payload, ok |-> ok])

(* --------------------------- display_name ----------------------------- *)

display_name_auth(r) ==
    /\ \E t \in Tokens, n \in NameArgs :
        Authenticate(r, [op |-> "display_name", token |-> t, display_name |-> n],
                     "dn_load")
    /\ UNCHANGED concurrent

\* Faulty variant: the comparison the wrong way round.
case_mismatch_inverted(username, name) == to_lowercase(username) = to_lowercase(name)

\* if user.username.to_lowercase() != display_name.to_lowercase()
case_mismatch(username, name) == to_lowercase(username) # to_lowercase(name)

\* user_by_id_loader.load(..) and the case check.
display_name_load(r) ==
    /\ pc[r] = "dn_load"
    /\ UNCHANGED <<users, sessions, channel_user, nats, args, auth, env>>
    /\ \/ /\ Return(r, DbError)
          /\ UNCHANGED <<user, concurrent>>
       \/ /\ Load(auth[r].user_id) = None
          /\ Return(r, NotFound)
          /\ UNCHANGED <<user, concurrent>>
       \/ /\ Load(auth[r].user_id) # None
          /\ LET u == Load(auth[r].user_id) IN
             /\ user' = [user EXCEPT ![r] = u]
             /\ IF case_mismatch(u.username, args[r].display_name)
                THEN /\ Return(r, InvalidInput("displayName"))
                     /\ UNCHANGED concurrent
                ELSE /\ Goto(r, "dn_update")
                     /\ concurrent' = concurrent \cup
                            {{r, q} : q \in {x \in Reqs : pc[x] = "dn_update"}}
                     /\ UNCHANGED tx

\* Faulty variant: the update without its guard on the username (WHERE id = $2).
display_name_rows_unguarded(id, username) ==
    {u \in Users : users[u] # None /\ users[u].id = id}

\* The rows UPDATE users ... WHERE id = $2 AND username = $3 matches.
display_name_rows(id, username) ==
    {u \in Users : users[u] # None /\ users[u].id = id /\ users[u].username = username}

\* UPDATE users SET display_name = $1 WHERE id = $2 AND username = $3 RETURNING *
\* with fetch_one: the row as updated, or RowNotFound.
display_name_update(r) ==
    /\ pc[r] = "dn_update"
    /\ UNCHANGED <<sessions, channel_user, nats, args, auth, concurrent, env>>
    /\ \/ /\ Return(r, DbError)
          /\ UNCHANGED <<users, user>>
       \/ /\ ~Locked(auth[r].user_id)
          /\ LET rows == display_name_rows(auth[r].user_id, user[r].username) IN
             IF rows = {}
             THEN /\ Return(r, RowNotFound)
                  /\ UNCHANGED <<users, user>>
             ELSE /\ users' = [u \in Users |->
                        IF u \in rows
                        THEN [users[u] EXCEPT !.display_name = args[r].display_name]
                        ELSE users[u]]
                  /\ user' = [user EXCEPT ![r] = users'[CHOOSE u \in rows : TRUE]]
                  /\ Goto(r, "dn_publish")
                  /\ UNCHANGED tx

\* Faulty variant: the result of the publish is dropped, the request succeeds anyway.
display_name_publish_swallowed(r) ==
    /\ pc[r] = "dn_publish"
    /\ UNCHANGED <<users, sessions, channel_user, args, auth, user, concurrent, env>>
    /\ \E ok \in BOOLEAN :
        /\ Publish(r, Subject("user", user[r].id, "display_name"),
                   [user_id |-> user[r].id, display_name |-> args[r].display_name], ok)
        /\ Return(r, Ok(user[r]))

\* Faulty variant: the event carries the username of the row, not the new display name.
display_name_publish_username(r) ==
    /\ pc[r] = "dn_publish"
    /\ UNCHANGED <<users, sessions, channel_user, args, auth, user, concurrent, env>>
    /\ \E ok \in BOOLEAN :
        /\ Publish(r, Subject("user", user[r].id, "display_name"),
                   [user_id |-> user[r].id, display_name |-> user[r].username], ok)
        /\ Return(r, IF ok THEN Ok(user[r]) ELSE PublishError)

\* Faulty variant: a failed publish is tried a second time.
display_name_publish_retry_once(r) ==
    /\ pc[r] = "dn_publish"
    /\ UNCHANGED <<users, sessions, channel_user, args, auth, user, concurrent, env>>
    /\ \E ok \in BOOLEAN :
        /\ Publish(r, Subject("user", user[r].id, "display_name"),
                   [user_id |-> user[r].id, display_name |-> args[r].display_name], ok)
        /\ IF ok \/ \E i \in 1..Len(nats) : nats[i].req = r
           THEN Return(r, IF ok THEN Ok(user[r]) ELSE PublishError)
           ELSE UNCHANGED <<pc, result, at, tx>>

\* nats.publish("user.{id}.display_name", UserDisplayName{user_id, display_name})
display_name_publish(r) ==
    /\ pc[r] = "dn_publish"
    /\ UNCHANGED <<users, sessions, channel_user, args, auth, user, concurrent, env>>
    /\ \E ok \in BOOLEAN :
        /\ Publish(r, Subject("user", user[r].id, "display_name"),
                   [user_id |-> user[r].id, display_name |-> args[r].display_name], ok)
        /\ Return(r, IF ok THEN Ok(user[r]) ELSE PublishError)

display_name(r) ==
    \/ display_name_auth(r)
    \/ display_name_load(r)
    \/ display_name_update(r)
    \/ display_name_publish(r)

(* ------------------------------- email -------------------------------- *)

email_auth(r) ==
    /\ \E t \in Tokens, e \in Emails :
        Authenticate(r, [op |-> "email", token |-> t, email |-> e], "em_update")
    /\ UNCHANGED concurrent

\* Faulty variant: UPDATE users SET email = $1 WHERE id = $2, the verified flag stays.
email_update_keeps_verified(r) ==
    /\ pc[r] = "em_update"
    /\ UNCHANGED <<sessions, channel_user, nats, args, auth, user, concurrent, env>>
    /\ \/ /\ Return(r, DbError)
          /\ UNCHANGED users
       \/ /\ ~Locked(auth[r].user_id)
          /\ LET id == auth[r].user_id IN
             IF users[id] = None
             THEN /\ Return(r, RowNotFound)
                  /\ UNCHANGED users
             ELSE /\ users' = [users EXCEPT ![id].email = args[r].email]
                  /\ Return(r, Ok(users'[id]))

\* UPDATE users SET email = $1, email_verified = false WHERE id = $2 RETURNING *
email_update(r) ==
    /\ pc[r] = "em_update"
    /\ UNCHANGED <<sessions, channel_user, nats, args, auth, user, concurrent, env>>
    /\ \/ /\ Return(r, DbError)
          /\ UNCHANGED users
       \/ /\ ~Locked(auth[r].user_id)
          /\ LET id == auth[r].user_id IN
             IF users[id] = None
             THEN /\ Return(r, RowNotFound)
                  /\ UNCHANGED users
             ELSE /\ users' = [users EXCEPT ![id].email = args[r].email,
                                            ![id].email_verified = FALSE]
                  /\ Return(r, Ok(users'[id]))

email(r) == email_auth(r) \/ email_update(r)

(* --------------------------- display_color ----------------------------- *)

display_color_auth(r) ==
    /\ \E t \in Tokens, c \in Colors :
        Authenticate(r, [op |-> "display_color", token |-> t, color |-> c], "dc_update")
    /\ UNCHANGED concurrent

\* UPDATE users SET display_color = $1 WHERE id = $2 RETURNING *
display_color_update(r) ==
    /\ pc[r] = "dc_update"
    /\ UNCHANGED <<sessions, channel_user, nats, args, auth, concurrent, env>>
    /\ \/ /\ Return(r, DbError)
          /\ UNCHANGED <<users, user>>
       \/ /\ ~Locked(auth[r].user_id)
          /\ LET id == auth[r].user_id IN
             IF users[id] = None
             THEN /\ Return(r, RowNotFound)
                  /\ UNCHANGED <<users, user>>
             ELSE /\ users' = [users EXCEPT ![id].display_color = args[r].color]
                  /\ user' = [user EXCEPT ![r] = users'[id]]
                  /\ Goto(r, "dc_publish")
                  /\ UNCHANGED tx

\* nats.publish("user.{id}.display_color", UserDisplayColor{user_id, display_color})
display_color_publish(r) ==
    /\ pc[r] = "dc_publish"
    /\ UNCHANGED <<users, sessions, channel_user, args, auth, user, concurrent, env>>
    /\ \E ok \in BOOLEAN :
        /\ Publish(r, Subject("user", user[r].id, "display_color"),
                   [user_id |-> user[r].id, display_color |-> args[r].color], ok)
        /\ Return(r, IF ok THEN Ok(user[r]) ELSE PublishError)

display_color(r) ==
    \/ display_color_auth(r)
    \/ display_color_update(r)
    \/ display_color_publish(r)

(* ------------------------------ password ------------------------------- *)

password_auth(r) ==
    /\ \E t \in Tokens, c \in CurrentPasswords, n \in NewPasswords :
        Authenticate(r, [op |-> "password", token |-> t, current_password |-> c,
                         new_password |-> n], "pw_load")
    /\ UNCHANGED concurrent

\* Faulty variant: the negation is missing.
wrong_password_inverted(u, current_password) == verify_password(u, current_password)

\* if !user.verify_password(&current_password)
wrong_password(u, current_password) == ~verify_password(u, current_password)

\* user_by_id_loader.load(..) and user.verify_password(&current_password).
password_load(r) ==
    /\ pc[r] = "pw_load"
    /\ UNCHANGED <<users, sessions, channel_user, nats, args, auth, concurrent, env>>
    /\ \/ /\ Return(r, DbError)
          /\ UNCHANGED user
       \/ /\ Load(auth[r].user_id) = None
          /\ Return(r, NotFound)
          /\ UNCHANGED user
       \/ /\ Load(auth[r].user_id) # None
          /\ LET u == Load(auth[r].user_id) IN
             /\ user' = [user EXCEPT ![r] = u]
             /\ IF wrong_password(u, args[r].current_password)
                THEN Return(r, InvalidInput("password"))
                ELSE /\ Goto(r, "pw_update")
                     /\ UNCHANGED tx

\* Faulty variant: the UPDATE runs on the pool (global.db), outside the transaction, so
\* it reaches the table at once.
password_update_write_autocommit(r, id) ==
    /\ tx' = [tx EXCEPT ![r] = [open |-> TRUE,
                                hash |-> hash_password(args[r].new_password),
                                deleted |-> {}]]
    /\ users' = [users EXCEPT ![id].password_hash = hash_password(args[r].new_password)]
    /\ user' = [user EXCEPT ![r] = users'[id]]

\* What the UPDATE of the transaction writes: the new hash, held by the
\* transaction until it commits.
password_update_write(r, id) ==
    /\ tx' = [tx EXCEPT ![r] = [open |-> TRUE,
                                hash |-> hash_password(args[r].new_password),
                                deleted |-> {}]]
    /\ user' = [user EXCEPT ![r] =
                    [users[id] EXCEPT !.password_hash = hash_password(args[r].new_password)]]
    /\ UNCHANGED users

\* global.db.begin(), then in the transaction
\* UPDATE users SET password_hash = $1 WHERE id = $2 RETURNING *
password_update(r) ==
    /\ pc[r] = "pw_update"
    /\ UNCHANGED <<sessions, channel_user, nats, args, auth, concurrent, env>>
    /\ \/ /\ Return(r, DbError)
          /\ UNCHANGED <<users, user>>
       \/ /\ ~Locked(user[r].id)
          /\ IF users[user[r].id] = None
             THEN /\ Return(r, RowNotFound)
                  /\ UNCHANGED <<users, user>>
             ELSE /\ password_update_write(r, user[r].id)
                  /\ Goto(r, "pw_delete")

\* Faulty variant: the condition id != $2 is missing.
password_delete_rows_all(user_id, id) == {s \in sessions : s.user_id = user_id}

\* Faulty variant: DELETE FROM user_sessions WHERE id != $2, for every user.
password_delete_rows_every_user(user_id, id) == {s \in sessions : s.id # id}

\* The rows DELETE FROM user_sessions WHERE user_id = $1 AND id != $2 matches.
password_delete_rows(user_id, id) ==
    {s \in sessions : s.user_id = user_id /\ s.id # id}

\* In the transaction: DELETE FROM user_sessions WHERE user_id = $1 AND id != $2
password_delete(r) ==
    /\ pc[r] = "pw_delete"
    /\ UNCHANGED <<users, sessions, channel_user, nats, args, auth, user, concurrent, env>>
    /\ \/ Return(r, DbError)
       \/ /\ tx' = [tx EXCEPT ![r].deleted = password_delete_rows(user[r].id, auth[r].id)]
          /\ Goto(r, "pw_commit")

\* tx.commit(): the writes of the transaction reach the tables together.
password_commit(r) ==
    /\ pc[r] = "pw_commit"
    /\ UNCHANGED <<channel_user, nats, args, auth, user, concurrent, env>>
    /\ \/ /\ Return(r, DbError)
          /\ UNCHANGED <<users, sessions>>
       \/ /\ users' = [users EXCEPT ![user[r].id].password_hash = tx[r].hash]
          /\ sessions' = sessions \ tx[r].deleted
          /\ Return(r, Ok(user[r]))

password(r) ==
    \/ password_auth(r)
    \/ password_load(r)
    \/ password_update(r)
    \/ password_delete(r)
    \/ password_commit(r)

(* ------------------------------- follow -------------------------------- *)

\* Faulty variant: the id of the session is compared, not the id of its user.
follow_self_session_id(session, channel_id) == session.id = channel_id

\* if auth.session.user_id.0 == channel_id.to_ulid()
follow_self(session, channel_id) == session.user_id = channel_id

\* auth, then the self-follow check.
follow_auth(r) ==
    \E t \in Tokens, c \in Channels, f \in BOOLEAN :
        /\ pc[r] = "idle"
        /\ args' = [args EXCEPT ![r] =
                        [op |-> "follow", token |-> t, channel_id |-> c, follow |-> f]]
        /\ UNCHANGED <<users, sessions, channel_user, nats, user, concurrent, env>>
        /\ IF Auth(t) = None
           THEN /\ Return(r, NotLoggedIn)
                /\ UNCHANGED auth
           ELSE /\ auth' = [auth EXCEPT ![r] = Auth(t)]
                /\ IF follow_self(Auth(t), c)
                   THEN Return(r, InvalidInput("channelId"))
                   ELSE /\ Goto(r, "fl_upsert")
                        /\ UNCHANGED tx

\* Faulty variant: INSERT .. ON CONFLICT DO NOTHING, a stored row keeps its flag.
Upsert_do_nothing(table, row) ==
    IF \E x \in table : x.user_id = row.user_id /\ x.channel_id = row.channel_id
    THEN table
    ELSE table \cup {row}

\* Faulty variant: an unfollow deletes the row of the key.
Upsert_unfollow_deletes(table, row) ==
    {x \in table : ~(x.user_id = row.user_id /\ x.channel_id = row.channel_id)}
        \cup (IF row.following THEN {row} ELSE {})

\* UPSERT INTO channel_user(user_id, channel_id, following) VALUES ($1, $2, $3):
\* the row of the key (user_id, channel_id) is inserted or overwritten.
Upsert(table, row) ==
    {x \in table : ~(x.user_id = row.user_id /\ x.channel_id = row.channel_id)}
        \cup {row}

\* Faulty variant: the error of the upsert is dropped and the handler publishes.
follow_upsert_error_dropped(r) ==
    /\ pc[r] = "fl_upsert"
    /\ UNCHANGED <<users, sessions, nats, args, auth, user, concurrent, env>>
    /\ \/ /\ Goto(r, "fl_publish_user")
          /\ UNCHANGED <<channel_user, tx>>
       \/ /\ channel_user' = Upsert(channel_user,
                [user_id |-> auth[r].user_id, channel_id |-> args[r].channel_id,
                 following |-> args[r].follow])
          /\ Goto(r, "fl_publish_user")
          /\ UNCHANGED tx

follow_upsert(r) ==
    /\ pc[r] = "fl_upsert"
    /\ UNCHANGED <<users, sessions, nats, args, auth, user, concurrent, env>>
    /\ \/ /\ Return(r, DbError)
          /\ UNCHANGED channel_user
       \/ /\ channel_user' = Upsert(channel_user,
                [user_id |-> auth[r].user_id, channel_id |-> args[r].channel_id,
                 following |-> args[r].follow])
          /\ Goto(r, "fl_publish_user")
          /\ UNCHANGED tx

\* Faulty variant: the message names the channel as the user and the user as the channel.
follow_msg_swapped(r) ==
    [user_id |-> args[r].channel_id, channel_id |-> auth[r].user_id,
     following |-> args[r].follow]

\* The message both publishes of follow carry.
follow_msg(r) ==
    [user_id |-> auth[r].user_id, channel_id |-> args[r].channel_id,
     following |-> args[r].follow]

\* nats.publish(user_subject, msg.clone()).await.map_err_gql(..)?
follow_publish_user(r) ==
    /\ pc[r] = "fl_publish_user"
    /\ UNCHANGED <<users, sessions, channel_user, args, auth, user, concurrent, env>>
    /\ \E ok \in BOOLEAN :
        /\ Publish(r, Subject("user", auth[r].user_id, "follows"), follow_msg(r), ok)
        /\ IF ok
           THEN /\ Goto(r, "fl_publish_channel")
                /\ UNCHANGED tx
           ELSE Return(r, PublishError)

\* nats.publish(channel_subject, msg).await.map_err_gql(..)?; Ok(follow)
follow_publish_channel(r) ==
    /\ pc[r] = "fl_publish_channel"
    /\ UNCHANGED <<users, sessions, channel_user, args, auth, user, concurrent, env>>
    /\ \E ok \in BOOLEAN :
        /\ Publish(r, Subject("channel", args[r].channel_id, "follows"), follow_msg(r), ok)
        /\ Return(r, IF ok THEN Ok(args[r].follow) ELSE PublishError)

follow(r) ==
    \/ follow_auth(r)
    \/ follow_upsert(r)
    \/ follow_publish_user(r)
    \/ follow_publish_channel(r)

(* ---------------------------- other services -------------------------- *)

\* Another service changes a username (usernames stay unique).
ExtRename ==
    /\ env < MaxEnv
    /\ \E u \in Users, n \in UsernameArgs :
        /\ users[u] # None
        /\ ~Locked(u)
        /\ \A v \in Users : users[v] # None => users[v].username # n
        /\ users' = [users EXCEPT ![u].username = n]
    /\ env' = env + 1
    /\ UNCHANGED <<sessions, channel_user, nats, pc, args, auth, user, tx, result, at,
                   concurrent>>

\* Another service deletes a user row.
ExtDelete ==
    /\ env < MaxEnv
    /\ \E u \in Users :
        /\ users[u] # None
        /\ ~Locked(u)
        /\ users' = [users EXCEPT ![u] = None]
    /\ env' = env + 1
    /\ UNCHANGED <<sessions, channel_user, nats, pc, args, auth, user, tx, result, at,
                   concurrent>>

(* --------------------------- specifications --------------------------- *)

Next ==
    \/ \E r \in Reqs :
          email(r) \/ display_name(r) \/ display_color(r) \/ password(r) \/ follow(r)
    \/ ExtRename
    \/ ExtDelete
Spec == Init /\ [][Next]_vars

\* Only display-name requests, with the other services.
NextName == (\E r \in Reqs : display_name(r)) \/ ExtRename \/ ExtDelete
SpecName == Init /\ [][NextName]_vars

\* Only password requests, with the deletion of users by other services.
NextPassword == (\E r \in Reqs : password(r)) \/ ExtDelete
SpecPassword == Init /\ [][NextPassword]_vars

\* Only follow requests.
NextFollow == \E r \in Reqs : follow(r)
SpecFollow == Init /\ [][NextFollow]_vars

\* Only the requests that publish: display name, display color, follow.
NextPublish == \E r \in Reqs : display_name(r) \/ display_color(r) \/ follow(r)
SpecPublish == Init /\ [][NextPublish]_vars

\* The arrival of every kind of request, and whole password requests, which
\* delete sessions.
NextAuth ==
    \E r \in Reqs :
        \/ email_auth(r)
        \/ display_name_auth(r)
        \/ display_color_auth(r)
        \/ follow_auth(r)
        \/ password(r)
SpecAuth == Init /\ [][NextAuth]_vars

\* Email requests, while other services delete users.
NextEmail == (\E r \in Reqs : email(r)) \/ ExtDelete
SpecEmail == Init /\ [][NextEmail]_vars

\* The five operations alone. Every handler is polled until it returns, and
\* every call it awaits comes back with a value or an error.
Step(r) == email(r) \/ display_name(r) \/ display_color(r) \/ password(r) \/ follow(r)
NextRequests == \E r \in Reqs : Step(r)
SpecRequests == Init /\ [][NextRequests]_vars /\ \A r \in Reqs : WF_vars(Step(r))

(* ------------------------------ properties ---------------------------- *)

\* The user a request acts for.
Uid(r) == auth[r].user_id

\* Request r is a request of operation op that has arrived.
IsOp(r, op) == args[r] # None /\ args[r].op = op

\* C1: in the state right after the update of a display-name request
\* succeeds, the stored display_name and the stored username of that user are
\* equal once lowercased, whatever other requests and other services did before.
DisplayNameMatchesUsername ==
    [][\A r \in Reqs :
        (pc[r] = "dn_update" /\ pc'[r] = "dn_publish") =>
            to_lowercase(users'[Uid(r)].display_name)
                = to_lowercase(users'[Uid(r)].username)]_vars

\* C1 witness: an update has succeeded after other services changed usernames,
\* and it wrote a display name that differs from the username in case.
DisplayNameUpdatedAfterRename ==
    \E r \in Reqs :
        /\ pc[r] = "dn_publish"
        /\ env > 0
        /\ users[Uid(r)].display_name = args[r].display_name
        /\ users[Uid(r)].display_name # users[Uid(r)].username

\* C2: the commit of a password request sets the password_hash of its user to
\* the hash of new_password and deletes exactly the sessions of that user other
\* than the requester's; every other session stays.
PasswordChangeEffect ==
    [][\A r \in Reqs :
        (pc[r] = "pw_commit" /\ pc'[r] = "done") =>
            /\ users'[Uid(r)].password_hash = hash_password(args[r].new_password)
            /\ sessions' = sessions \
                   {s \in sessions : s.user_id = Uid(r) /\ s.id # auth[r].id}]_vars

\* C2 witness: a password request has completed and a session was deleted,
\* while the session of the other user is still there.
PasswordChangedSessionsDeleted ==
    \E r \in Reqs :
        /\ IsOp(r, "password")
        /\ pc[r] = "done"
        /\ Cardinality(sessions) < Cardinality(InitSessions)
        /\ \E s \in sessions : s.user_id # Uid(r)

\* C3: when a password request completes with success, the session it was made
\* with is still stored.
RequesterSessionSurvives ==
    [][\A r \in Reqs :
        (pc[r] = "pw_commit" /\ pc'[r] = "done") => auth[r] \in sessions']_vars

\* C4: the hash and the sessions change only in the commit step of a password
\* request, and there they change together; every other step of a password
\* request, a failure after the UPDATE included, leaves both tables as they are.
PasswordTransactionAtomic ==
    [][/\ \A r \in Reqs :
            (pc'[r] # pc[r] /\ IsOp(r, "password")' /\ ~(pc[r] = "pw_commit" /\ pc'[r] = "done"))
                => (users' = users /\ sessions' = sessions)
       /\ (\/ sessions' # sessions
           \/ \E u \in Users : /\ users[u] # None
                               /\ users'[u] # None
                               /\ users'[u].password_hash # users[u].password_hash)
            => \E r \in Reqs :
                /\ pc[r] = "pw_commit" /\ pc'[r] = "done"
                /\ users'[Uid(r)].password_hash = tx[r].hash
                /\ sessions' = sessions \ tx[r].deleted]_vars

\* C4 witness: a password request failed after its UPDATE and before its commit,
\* and the stored hash of its user is the one it started from.
PasswordFailedAfterUpdate ==
    \E r \in Reqs :
        /\ pc[r] = "failed"
        /\ at[r] \in {"pw_delete", "pw_commit"}
        /\ users[Uid(r)] # None
        /\ users[Uid(r)].password_hash = hash_password(args[r].current_password)
        /\ sessions = InitSessions

\* The await points that are publish calls.
PublishPoints == {"dn_publish", "dc_publish", "fl_publish_user", "fl_publish_channel"}

\* C5: when a publish fails, the request returns the publish error and the
\* tables stay as the write left them.
PublishFailureKeepsWrite ==
    [][\A r \in Reqs :
        (pc[r] \in PublishPoints /\ pc'[r] # pc[r] /\ ~nats'[Len(nats')].ok) =>
            /\ pc'[r] = "failed"
            /\ result'[r] = PublishError
            /\ users' = users
            /\ sessions' = sessions
            /\ channel_user' = channel_user]_vars

\* C5 witness: a display-name request returned the publish error and the
\* display name it wrote is stored.
PublishFailedWriteStored ==
    \E r \in Reqs :
        /\ IsOp(r, "display_name")
        /\ result[r] = PublishError
        /\ users[Uid(r)] # None
        /\ users[Uid(r)].display_name = args[r].display_name
        /\ users[Uid(r)].display_name # InitUser(Uid(r)).display_name

\* The subjects request r has called publish on.
Attempted(r) == {nats[i].subject : i \in {j \in 1..Len(nats) : nats[j].req = r}}

\* C6: a follow request whose upsert succeeded has, once it has returned,
\* called publish on the subject of the user and on the subject of the channel.
BothFollowPublishesAttempted ==
    \A r \in Reqs :
        (/\ IsOp(r, "follow")
         /\ pc[r] \in {"done", "failed"}
         /\ at[r] \in {"fl_publish_user", "fl_publish_channel"})
            => {Subject("user", Uid(r), "follows"),
                Subject("channel", args[r].channel_id, "follows")} \subseteq Attempted(r)

\* Requests r1 and r2 are concurrent display-name requests of one user (both had
\* loaded the user while neither had run its update) and their updates expect
\* different usernames.
Rivals(r1, r2) ==
    /\ r1 # r2
    /\ {r1, r2} \in concurrent
    /\ auth[r1] # None /\ auth[r2] # None
    /\ Uid(r1) = Uid(r2)
    /\ user[r1] # None /\ user[r2] # None
    /\ user[r1].username # user[r2].username

RowsNow(r) == display_name_rows(Uid(r), user[r].username)

MismatchRejected ==
    [][\A r \in Reqs :
        (/\ pc[r] = "dn_load" /\ pc'[r] # pc[r]
         /\ user'[r] # None
         /\ to_lowercase(user'[r].username) # to_lowercase(args[r].display_name))
            => /\ pc'[r] = "failed"
               /\ result'[r] = InvalidInput("displayName")
               /\ result'[r].fields = <<"displayName">>
               /\ users' = users]_vars

\* C8 witness: a request was rejected for its display name.
DisplayNameRejected ==
    \E r \in Reqs :
        /\ result[r] = InvalidInput("displayName")
        /\ to_lowercase(user[r].username) # to_lowercase(args[r].display_name)
        /\ users[Uid(r)] # None
        /\ users[Uid(r)].display_name # args[r].display_name

\* C9: a password request whose current_password does not verify against the
\* loaded row returns InvalidInput on password; the hash stays and no session
\* is deleted.
WrongPasswordRejected ==
    [][\A r \in Reqs :
        (/\ pc[r] = "pw_load" /\ pc'[r] # pc[r]
         /\ user'[r] # None
         /\ ~verify_password(user'[r], args[r].current_password))
            => /\ pc'[r] = "failed"
               /\ result'[r] = InvalidInput("password")
               /\ result'[r].fields = <<"password">>
               /\ users' = users
               /\ sessions' = sessions]_vars

\* C9 witness: a request was rejected for its password.
PasswordRejected ==
    \E r \in Reqs :
        /\ result[r] = InvalidInput("password")
        /\ user[r].password_hash # hash_password(args[r].current_password)
        /\ sessions = InitSessions

\* C10: a follow request whose channel is the caller's own user has failed with
\* InvalidInput on channelId and has published nothing, for both values of the
\* flag; and no row of channel_user has a user as its own channel.
SelfFollowRejected ==
    /\ \A r \in Reqs :
        (IsOp(r, "follow") /\ auth[r] # None /\ Uid(r) = args[r].channel_id) =>
            /\ pc[r] = "failed"
            /\ result[r] = InvalidInput("channelId")
            /\ result[r].fields = <<"channelId">>
            /\ Attempted(r) = {}
    /\ \A row \in channel_user : row.user_id # row.channel_id

\* C10 witness: an unfollow of oneself was rejected while a row of the caller
\* is stored.
SelfUnfollowRejected ==
    \E r \in Reqs :
        /\ IsOp(r, "follow")
        /\ result[r] = InvalidInput("channelId")
        /\ ~args[r].follow
        /\ \E row \in channel_user : row.user_id = Uid(r)

\* The rows of channel_user with the key (user_id, channel_id).
RowsOf(table, user_id, channel_id) ==
    {x \in table : x.user_id = user_id /\ x.channel_id = channel_id}

\* The publish calls request r has made.
Calls(r) == {i \in 1..Len(nats) : nats[i].req = r}

\* C11: an upsert of setFollow(C, true) leaves exactly one row (user, C), with
\* following = true, and when that row was already stored (the call repeats an
\* earlier one) the table is the same as before; a follow request that
\* succeeded has made two publish calls, one on each subject.
FollowIdempotent ==
    /\ [][\A r \in Reqs :
            (pc[r] = "fl_upsert" /\ pc'[r] = "fl_publish_user" /\ args[r].follow) =>
                LET row == [user_id |-> Uid(r), channel_id |-> args[r].channel_id,
                            following |-> TRUE]
                IN  /\ RowsOf(channel_user', Uid(r), args[r].channel_id) = {row}
                    /\ (row \in channel_user => channel_user' = channel_user)]_vars
    /\ [](\A r \in Reqs :
            (IsOp(r, "follow") /\ pc[r] = "done") =>
                /\ Cardinality(Calls(r)) = 2
                /\ Attempted(r) = {Subject("user", Uid(r), "follows"),
                                   Subject("channel", args[r].channel_id, "follows")})

\* C11 witness: two requests of one user with the same setFollow(C, true) have
\* succeeded one after the other, and the one row (user, C) is stored.
FollowedTwice ==
    \E r1, r2 \in Reqs :
        /\ r1 # r2
        /\ pc[r1] = "done" /\ pc[r2] = "done"
        /\ IsOp(r1, "follow") /\ IsOp(r2, "follow")
        /\ args[r1].follow /\ args[r2].follow
        /\ Uid(r1) = Uid(r2)
        /\ args[r1].channel_id = args[r2].channel_id
        /\ Len(nats) = 4
        /\ nats[2].req = r1 /\ nats[3].req = r2
        /\ RowsOf(channel_user, Uid(r1), args[r1].channel_id)
             = {[user_id |-> Uid(r1), channel_id |-> args[r1].channel_id,
                 following |-> TRUE]}

\* C12: a request of any of the five operations that arrives without a stored
\* session fails at once with NotLoggedIn, leaves the three tables as they are
\* and publishes nothing, then or later.
UnauthenticatedRejected ==
    /\ [][\A r \in Reqs :
            (pc[r] = "idle" /\ pc'[r] # "idle" /\ Auth(args'[r].token) = None) =>
                /\ pc'[r] = "failed"
                /\ result'[r] = NotLoggedIn
                /\ users' = users
                /\ sessions' = sessions
                /\ channel_user' = channel_user
                /\ nats' = nats]_vars
    /\ [](\A r \in Reqs :
            (args[r] # None /\ auth[r] = None) =>
                /\ pc[r] = "failed"
                /\ result[r] = NotLoggedIn
                /\ Calls(r) = {})

\* C12 witness: a password change deleted the session that a later email
\* request presented, and the email request was rejected.
DeletedSessionRejected ==
    \E r1, r2 \in Reqs :
        /\ IsOp(r1, "password") /\ pc[r1] = "done"
        /\ IsOp(r2, "email") /\ args[r2].token # 0
        /\ Auth(args[r2].token) = None
        /\ result[r2] = NotLoggedIn
        /\ users[Uid(r1)].email = InitUser(Uid(r1)).email
        /\ nats = <<>>

\* C13: an email request that succeeds stores the new email with
\* email_verified = FALSE, whatever the flag was, changes nothing else of the
\* row, returns the stored row, and no email request ever calls publish.
EmailChangeEffect ==
    /\ [][\A r \in Reqs :
            (pc[r] = "em_update" /\ pc'[r] = "done") =>
                /\ users'[Uid(r)] = [users[Uid(r)] EXCEPT !.email = args[r].email,
                                                          !.email_verified = FALSE]
                /\ \A u \in Users \ {Uid(r)} : users'[u] = users[u]
                /\ result'[r] = Ok(users'[Uid(r)])
                /\ nats' = nats]_vars
    /\ [](\A r \in Reqs : IsOp(r, "email") => Calls(r) = {})

\* C13 witness: two email changes of one user succeeded, the second on a row
\* whose email_verified was already FALSE.
EmailChangedTwice ==
    \E r1, r2 \in Reqs :
        /\ r1 # r2
        /\ IsOp(r1, "email") /\ IsOp(r2, "email")
        /\ pc[r1] = "done" /\ pc[r2] = "done"
        /\ Uid(r1) = Uid(r2)
        /\ result[r1].value.email = "e0" /\ ~result[r1].value.email_verified
        /\ result[r2].value.email = "e1"
        /\ users[Uid(r2)] = result[r2].value
        /\ ~users[Uid(r2)].email_verified

\* C14: publish is called only by a request standing at a publish call, one call
\* a step; a request reaches its first publish call only in the step in which
\* its write was stored, and its second only from its first; a request that has
\* not reached a publish call, or failed before one, has called publish never.
CommitPrecedesPublish ==
    /\ [][/\ (nats' # nats) =>
                \E r \in Reqs :
                    /\ pc[r] \in PublishPoints
                    /\ pc'[r] # pc[r]
                    /\ Len(nats') = Len(nats) + 1
                    /\ SubSeq(nats', 1, Len(nats)) = nats
                    /\ nats'[Len(nats')].req = r
          /\ \A r \in Reqs :
                (pc'[r] # pc[r] /\ pc'[r] \in PublishPoints) =>
                    \/ /\ pc[r] = "dn_update" /\ pc'[r] = "dn_publish"
                       /\ users'[Uid(r)].display_name = args[r].display_name
                    \/ /\ pc[r] = "dc_update" /\ pc'[r] = "dc_publish"
                       /\ users'[Uid(r)].display_color = args[r].color
                    \/ /\ pc[r] = "fl_upsert" /\ pc'[r] = "fl_publish_user"
                       /\ follow_msg(r) \in channel_user'
                    \/ /\ pc[r] = "fl_publish_user" /\ pc'[r] = "fl_publish_channel"]_vars
    /\ [](\A r \in Reqs :
            (\/ pc[r] \notin PublishPoints \cup {"done", "failed"}
             \/ (pc[r] = "failed" /\ at[r] \notin PublishPoints)) => Calls(r) = {})

\* C14 witness: a display-name request failed at its load or its write and has
\* published nothing, while a follow request wrote and then published twice.
FailedWriteUnpublished ==
    \E r1, r2 \in Reqs :
        /\ IsOp(r1, "display_name")
        /\ pc[r1] = "failed" /\ at[r1] \in {"dn_load", "dn_update"}
        /\ Calls(r1) = {}
        /\ IsOp(r2, "follow")
        /\ pc[r2] = "done"
        /\ follow_msg(r2) \in channel_user
        /\ Cardinality(Calls(r2)) = 2

\* How far a handler has come: the number of await points behind it.
Rank(label) ==
    CASE label = "idle" -> 0
      [] label \in {"dn_load", "em_update", "dc_update", "pw_load", "fl_upsert"} -> 1
      [] label \in {"dn_update", "dc_publish", "pw_update", "fl_publish_user"} -> 2
      [] label \in {"dn_publish", "pw_delete", "fl_publish_channel"} -> 3
      [] label = "pw_commit" -> 4
      [] label \in {"done", "failed"} -> 5

\* The await points at which a write reaches the tables.
WritePoints == {"dn_update", "em_update", "dc_update", "pw_commit", "fl_upsert"}

\* C15: every request that has arrived returns, done or failed; every step of a
\* request takes it to a later await point or to its return, so no await point
\* is passed twice; the tables change only in the step of one request leaving
\* its write, publish is called only in the step of one request leaving a
\* publish call, and no request calls publish twice on one subject.
RequestsTerminateWithoutRetry ==
    /\ [][/\ \A r \in Reqs : (pc'[r] # pc[r]) => Rank(pc'[r]) > Rank(pc[r])
          /\ \E r \in Reqs :
                /\ pc'[r] # pc[r]
                /\ \A q \in Reqs \ {r} : pc'[q] = pc[q]
                /\ (<<users, sessions, channel_user>>' # <<users, sessions, channel_user>>)
                        => pc[r] \in WritePoints
                /\ (nats' # nats) =>
                        /\ pc[r] \in PublishPoints
                        /\ Len(nats') = Len(nats) + 1]_vars
    /\ [](\A r \in Reqs : \A i, j \in Calls(r) :
                (nats[i].subject = nats[j].subject) => i = j)
    /\ \A r \in Reqs : (pc[r] # "idle") ~> (pc[r] \in {"done", "failed"})

\* C15 witness: a display-name request failed in its publish call after its one
\* write, and a follow request failed in its first publish call after its one
\* write; each has called publish once.
FailedStepsNotRetried ==
    \E r1, r2 \in Reqs :
        /\ IsOp(r1, "display_name")
        /\ pc[r1] = "failed" /\ at[r1] = "dn_publish"
        /\ Cardinality(Calls(r1)) = 1
        /\ IsOp(r2, "follow")
        /\ pc[r2] = "failed" /\ at[r2] = "fl_publish_user"
        /\ Cardinality(Calls(r2)) = 1
        /\ Len(nats) = 2

\* C16: every publish call of a display-name request is on
\* user.<caller>.display_name with the caller's id and the display_name of the
\* row its update returned; of a display-color request on
\* user.<caller>.display_color with the color of that row; of a follow request
\* on user.<caller>.follows or channel.<channel_id>.follows, in that order, with
\* the caller's id, the channel's id and the flag it wrote.
EventsFilledFromWriter ==
    \A i \in 1..Len(nats) :
        LET e == nats[i]
            r == e.req
        IN  CASE IsOp(r, "display_name") ->
                    /\ e.subject = Subject("user", Uid(r), "display_name")
                    /\ e.payload = [user_id |-> Uid(r), display_name |-> user[r].display_name]
                    /\ user[r].id = Uid(r)
                    /\ user[r].display_name = args[r].display_name
              [] IsOp(r, "display_color") ->
                    /\ e.subject = Subject("user", Uid(r), "display_color")
                    /\ e.payload = [user_id |-> Uid(r), display_color |-> user[r].display_color]
                    /\ user[r].id = Uid(r)
                    /\ user[r].display_color = args[r].color
              [] IsOp(r, "follow") ->
                    /\ e.payload = [user_id |-> Uid(r), channel_id |-> args[r].channel_id,
                                    following |-> args[r].follow]
                    /\ e.subject = IF i = CHOOSE j \in Calls(r) : \A k \in Calls(r) : j <= k
                                   THEN Subject("user", Uid(r), "follows")
                                   ELSE Subject("channel", args[r].channel_id, "follows")
              [] OTHER -> FALSE

\* C16 witness: a display-name event and the two events of an unfollow have been
\* published, the two with one payload on the two subjects.
ThreeEventsPublished ==
    \E r1, r2 \in Reqs :
        /\ IsOp(r1, "display_name") /\ pc[r1] = "done"
        /\ IsOp(r2, "follow") /\ pc[r2] = "done" /\ ~args[r2].follow
        /\ Len(nats) = 3
        /\ nats[1].req = r1
        /\ nats[1].payload.display_name # InitUser(Uid(r1)).display_name
        /\ nats[2].payload = nats[3].payload
        /\ nats[2].subject = Subject("user", Uid(r2), "follows")
        /\ nats[3].subject = Subject("channel", args[r2].channel_id, "follows")

\* The keys (user_id, channel_id) that have a row in the table.
Keys(table) == {<<x.user_id, x.channel_id>> : x \in table}

\* C17: the follow table never holds two rows of one (user_id, channel_id); it
\* changes only in the upsert of a follow request, which leaves for its key
\* exactly the row with the flag of that request and every other row as it was,
\* so the flag stored is the one of the last upsert of the pair; no step removes
\* a key, an unfollow included.
OneFollowRowPerPair ==
    /\ [](\A x, y \in channel_user :
            (x.user_id = y.user_id /\ x.channel_id = y.channel_id) => x = y)
    /\ [][/\ Keys(channel_user) \subseteq Keys(channel_user')
          /\ (channel_user' # channel_user) =>
                \E r \in Reqs : pc[r] = "fl_upsert" /\ pc'[r] = "fl_publish_user"
          /\ \A r \in Reqs :
                (pc[r] = "fl_upsert" /\ pc'[r] = "fl_publish_user") =>
                    /\ RowsOf(channel_user', Uid(r), args[r].channel_id)
                            = {[user_id |-> Uid(r), channel_id |-> args[r].channel_id,
                                following |-> args[r].follow]}
                    /\ channel_user' \ RowsOf(channel_user', Uid(r), args[r].channel_id)
                            = channel_user \ RowsOf(channel_user, Uid(r), args[r].channel_id)]_vars

\* C17 witness: a follow and then an unfollow of one channel by one user have
\* completed, and the table holds the one row of the pair, with following FALSE.
UnfollowLeavesRow ==
    \E r1, r2 \in Reqs :
        /\ IsOp(r1, "follow") /\ pc[r1] = "done" /\ args[r1].follow
        /\ IsOp(r2, "follow") /\ pc[r2] = "done" /\ ~args[r2].follow
        /\ Uid(r1) = Uid(r2)
        /\ args[r1].channel_id = args[r2].channel_id
        /\ Len(nats) = 4 /\ nats[2].req = r1 /\ nats[3].req = r2
        /\ channel_user = {[user_id |-> Uid(r2), channel_id |-> args[r2].channel_id,
                            following |-> FALSE]}

\* C18: every step is the step of one request, and it leaves alone the row of
\* every user other than the one of the request's session, the sessions of
\* every other user and the follow rows of every other user; the users that
\* exist stay the same users, each with its id and its username. A request
\* without a session changes no row at all.
OnlyCallersDataTouched ==
    [][\E r \in Reqs :
        /\ pc'[r] # pc[r]
        /\ \A u \in Users :
            /\ (users'[u] = None) <=> (users[u] = None)
            /\ (users[u] # None) =>
                    /\ users'[u].id = users[u].id
                    /\ users'[u].username = users[u].username
        /\ IF auth'[r] = None
           THEN <<users, sessions, channel_user>>' = <<users, sessions, channel_user>>
           ELSE /\ \A u \in Users \ {auth'[r].user_id} : users'[u] = users[u]
                /\ {s \in sessions' : s.user_id # auth'[r].user_id}
                        = {s \in sessions : s.user_id # auth'[r].user_id}
                /\ {x \in channel_user' : x.user_id # auth'[r].user_id}
                        = {x \in channel_user : x.user_id # auth'[r].user_id}]_vars

\* C18 witness: user 1 has changed the password and follows a channel, a session
\* of user 1 is deleted, and user 2's row and session are as they were.
CallerChangedOthersKept ==
    \E r1, r2 \in Reqs :
        /\ IsOp(r1, "password") /\ pc[r1] = "done" /\ Uid(r1) = 1
        /\ IsOp(r2, "follow") /\ pc[r2] = "done" /\ Uid(r2) = 1
        /\ users[1].password_hash # InitUser(1).password_hash
        /\ sessions # InitSessions
        /\ channel_user # {}
        /\ users[2] = InitUser(2)
        /\ {s \in sessions : s.user_id = 2} = {s \in InitSessions : s.user_id = 2}

\* C19: when a password request commits, the current_password it supplied
\* verifies against the password_hash stored just before its update (the row is
\* locked from the update to the commit, so that is the hash in the table when
\* the commit begins).
CommitVerifiesStoredHash ==
    [][\A r \in Reqs :
        (pc[r] = "pw_commit" /\ pc'[r] = "done") =>
            verify_password(users[Uid(r)], args[r].current_password)]_vars

\* The display-name requests of user u that have arrived with a session.
NameRequests(u) == {r \in Reqs : IsOp(r, "display_name") /\ auth[r] # None /\ Uid(r) = u}

\* The publish calls made on user.<u>.display_name, as positions in the log.
NameEvents(u) == {i \in 1..Len(nats) : nats[i].subject = Subject("user", u, "display_name")}

\* Two or more display-name requests of user u, each pair of which waited for
\* its update at one time, have all completed with success, and u is stored.
ConcurrentNamesDone(u) ==
    /\ users[u] # None
    /\ Cardinality(NameRequests(u)) >= 2
    /\ \A r \in NameRequests(u) : pc[r] = "done"
    /\ \A r1, r2 \in NameRequests(u) : (r1 # r2) => {r1, r2} \in concurrent

\* C20 as stated: once the concurrent display-name requests of a user have all
\* succeeded, the last event on the subject carries the stored display_name.
LastEventCarriesStored ==
    \A u \in Users :
        ConcurrentNamesDone(u) =>
            LET last == CHOOSE i \in NameEvents(u) : \A j \in NameEvents(u) : j <= i
            IN  nats[last].payload.display_name = users[u].display_name

\* C20, amended: once the display-name requests of a user have all succeeded,
\* the stored display_name is carried by one of the events published on the
\* subject, which need not be the last.
StoredNameWasPublished ==
    \A u \in Users :
        (/\ users[u] # None
         /\ NameRequests(u) # {}
         /\ \A r \in NameRequests(u) : pc[r] = "done")
            => \E i \in NameEvents(u) :
                    /\ nats[i].ok
                    /\ nats[i].payload.display_name = users[u].display_name

\* C20 witness: two concurrent display-name requests of a user have succeeded,
\* the event published first carries the stored display_name and the event
\* published last another one.
StaleEventPublishedLast ==
    \E u \in Users :
        /\ ConcurrentNamesDone(u)
        /\ Len(nats) = 2
        /\ NameEvents(u) = {1, 2}
        /\ nats[1].payload.display_name = users[u].display_name
        /\ nats[2].payload.display_name # users[u].display_name

====
